---- MODULE Spec2Model ----
(***************************************************************************)
(* A model of the terminal grid of vt100-rust (src/src/grid.rs): the       *)
(* cursor / scroll-region / origin-mode state machine, the editing and     *)
(* scrolling operations, and the two serializers contents_formatted and    *)
(* contents_diff together with a replay of their output.                   *)
(*                                                                         *)
(* A grid is a record with the fields of struct Grid plus `aborted`, which *)
(* is set when an operation panics (an index out of range, an `expect` on  *)
(* None, an arithmetic overflow in a build with overflow checks).  Every   *)
(* method `fn m(&mut self, ..)` is an operator m(g, ..) giving the grid    *)
(* after the call.  Cells carry default attributes only; a cell is 0 when  *)
(* blank and a character code 1..MaxChar otherwise.                        *)
(***************************************************************************)
EXTENDS Integers, Sequences, FiniteSets, TLC

VARIABLES grid, prev, op

vars == <<grid, prev, op>>

\* ------------------------------------------------------------------ bounds
InitRows == 2
InitCols == 2
MaxRows == 3
MaxCols == 2
MaxCount == 2
MaxChar == 1
ExRows == 24
MaxSteps == 5
CellCols == 4
CellSteps == 4
TabCols == 18
LineRows == 4
LineSteps == 4

U16Max == 65535

Min(a, b) == IF a < b THEN a ELSE b
Max(a, b) == IF a > b THEN a ELSE b

saturating_add(a, b) == Min(a + b, U16Max)
saturating_sub(a, b) == Max(a - b, 0)

\* ------------------------------------------------------- Vec<T> primitives
\* Vec::remove(i), Vec::insert(i, e) with 0-based i; the callers test the
\* index first, since both panic on an index out of range.
Take(s, n) == [i \in 1..Min(n, Len(s)) |-> s[i]]
Drop(s, n) == [i \in 1..Max(Len(s) - n, 0) |-> s[i + n]]
RemoveAt(s, i) == Take(s, i) \o Drop(s, i + 1)
InsertAt(s, i, e) == Take(s, i) \o <<e>> \o Drop(s, i)

\* ------------------------------------------------------- Size, Pos, Row
MkSize(r, c) == [rows |-> r, cols |-> c]
MkPos(r, c) == [row |-> r, col |-> c]
Pos_default == MkPos(0, 0)

Cell_default == 0

Row_new(cols) == [cells |-> [i \in 1..cols |-> Cell_default], wrapped |-> FALSE]
Row_clear(row) == [cells |-> [i \in 1..Len(row.cells) |-> Cell_default], wrapped |-> FALSE]
Row_wrap(row, w) == [row EXCEPT !.wrapped = w]
Row_truncate(row, n) == [row EXCEPT !.cells = Take(row.cells, n)]
Row_resize(row, n) ==
    [row EXCEPT !.cells = [i \in 1..n |-> IF i <= Len(row.cells) THEN row.cells[i] ELSE Cell_default]]

\* ------------------------------------------------------------------ Grid
new(size) ==
    [size |-> size,
     pos |-> Pos_default,
     saved_pos |-> Pos_default,
     rows |-> [i \in 1..size.rows |-> Row_new(size.cols)],
     scroll_top |-> 0,
     scroll_bottom |-> size.rows - 1,
     origin_mode |-> FALSE,
     saved_origin_mode |-> FALSE,
     aborted |-> FALSE]

new_row(g) == Row_new(g.size.cols)

\* A panic: the call does not return; the grid is left as it was, flagged.
Abort(g) == [g EXCEPT !.aborted = TRUE]
OrAbort(g, r) == IF r.aborted THEN Abort(g) ELSE r

\* The clamp helpers return the grid and the overshoot (`rows`).
row_clamp_top(g, limit_to_scroll_region) ==
    IF limit_to_scroll_region /\ g.pos.row < g.scroll_top
    THEN [g |-> [g EXCEPT !.pos.row = g.scroll_top], rows |-> g.scroll_top - g.pos.row]
    ELSE [g |-> g, rows |-> 0]

row_clamp_bottom(g, limit_to_scroll_region) ==
    LET bottom == IF limit_to_scroll_region THEN g.scroll_bottom ELSE g.size.rows - 1
    IN  IF g.pos.row > bottom
        THEN [g |-> [g EXCEPT !.pos.row = bottom], rows |-> g.pos.row - bottom]
        ELSE [g |-> g, rows |-> 0]

col_clamp(g) ==
    IF g.pos.col > g.size.cols - 1 THEN [g EXCEPT !.pos.col = g.size.cols - 1] ELSE g

clear(g) ==
    [g EXCEPT !.pos = Pos_default,
              !.saved_pos = Pos_default,
              !.rows = [i \in 1..Len(g.rows) |-> Row_clear(g.rows[i])],
              !.scroll_top = 0,
              !.scroll_bottom = g.size.rows - 1,
              !.origin_mode = FALSE,
              !.saved_origin_mode = FALSE]

\* set_size that leaves the wrap flags alone when the column count changes.
set_size_keeps_wrap(g, size) ==
    LET g2 == [g EXCEPT !.size = size]
        g3 == IF g2.scroll_bottom >= size.rows
              THEN [g2 EXCEPT !.scroll_bottom = size.rows - 1]
              ELSE g2
        g4 == IF g3.scroll_bottom < g3.scroll_top
              THEN [g3 EXCEPT !.scroll_top = 0]
              ELSE g3
    IN  col_clamp(row_clamp_bottom(row_clamp_top(g4, FALSE).g, FALSE).g)

\* set_size without the re-clamp of scroll_bottom into the new row count.
set_size_no_bottom_clamp(g, size) ==
    LET g1 == IF size.cols # g.size.cols
              THEN [g EXCEPT !.rows = [i \in 1..Len(g.rows) |-> Row_wrap(g.rows[i], FALSE)]]
              ELSE g
        g2 == [g1 EXCEPT !.size = size]
        g4 == IF g2.scroll_bottom < g2.scroll_top
              THEN [g2 EXCEPT !.scroll_top = 0]
              ELSE g2
    IN  col_clamp(row_clamp_bottom(row_clamp_top(g4, FALSE).g, FALSE).g)

set_size(g, size) ==
    LET g1 == IF size.cols # g.size.cols
              THEN [g EXCEPT !.rows = [i \in 1..Len(g.rows) |-> Row_wrap(g.rows[i], FALSE)]]
              ELSE g
        g2 == [g1 EXCEPT !.size = size]
        g3 == IF g2.scroll_bottom >= size.rows
              THEN [g2 EXCEPT !.scroll_bottom = size.rows - 1]
              ELSE g2
        g4 == IF g3.scroll_bottom < g3.scroll_top
              THEN [g3 EXCEPT !.scroll_top = 0]
              ELSE g3
    IN  col_clamp(row_clamp_bottom(row_clamp_top(g4, FALSE).g, FALSE).g)

\* set_pos that forgets to offset the row by scroll_top in origin mode.
set_pos_no_origin_offset(g, p) ==
    LET g1 == [g EXCEPT !.pos = p]
    IN  col_clamp(row_clamp_bottom(row_clamp_top(g1, g.origin_mode).g, g.origin_mode).g)

set_pos(g, p) ==
    LET p1 == IF g.origin_mode
              THEN [p EXCEPT !.row = saturating_add(p.row, g.scroll_top)]
              ELSE p
        g1 == [g EXCEPT !.pos = p1]
    IN  col_clamp(row_clamp_bottom(row_clamp_top(g1, g.origin_mode).g, g.origin_mode).g)

save_cursor(g) == [g EXCEPT !.saved_pos = g.pos, !.saved_origin_mode = g.origin_mode]

restore_cursor(g) == [g EXCEPT !.pos = g.saved_pos, !.origin_mode = g.saved_origin_mode]

\* row_mut(pos) / cell_mut(pos): whether the Option is Some.
HasRow(g, p) == p.row < Len(g.rows)
HasCell(g, p) == HasRow(g, p) /\ p.col < Len(g.rows[p.row + 1].cells)

\* current_row_mut().f(): the row under the cursor replaced by f's result;
\* the `expect` panics when the cursor addresses no row.
current_row_mut(g, newrow) ==
    IF HasRow(g, g.pos) THEN [g EXCEPT !.rows[g.pos.row + 1] = newrow] ELSE Abort(g)

\* *current_cell_mut() = c, as the callers of the accessor write a cell.
current_cell_mut(g, c) ==
    IF HasCell(g, g.pos)
    THEN [g EXCEPT !.rows[g.pos.row + 1].cells[g.pos.col + 1] = c]
    ELSE Abort(g)

\* u16 subtraction a - b: exact when a >= b; otherwise a panic in a build with
\* overflow checks (-1 here) and a wrap-around in a build without.
sub_u16(a, b, chk) == IF a >= b THEN a - b ELSE IF chk THEN -1 ELSE a - b + U16Max + 1

ClearCells(cells, from, to) ==
    [i \in 1..Len(cells) |-> IF i >= from /\ i <= to THEN Cell_default ELSE cells[i]]

erase_all(g) == [g EXCEPT !.rows = [i \in 1..Len(g.rows) |-> Row_clear(g.rows[i])]]

erase_row(g) ==
    IF HasRow(g, g.pos) THEN current_row_mut(g, Row_clear(g.rows[g.pos.row + 1])) ELSE Abort(g)

erase_row_forward(g) ==
    IF HasRow(g, g.pos)
    THEN LET row == g.rows[g.pos.row + 1]
         IN  current_row_mut(g, [cells |-> ClearCells(row.cells, g.pos.col + 1, Len(row.cells)),
                                 wrapped |-> FALSE])
    ELSE Abort(g)

erase_row_backward(g) ==
    IF HasRow(g, g.pos)
    THEN LET row == g.rows[g.pos.row + 1]
         IN  current_row_mut(g, [row EXCEPT !.cells = ClearCells(row.cells, 1, g.pos.col + 1)])
    ELSE Abort(g)

erase_all_forward(g) ==
    LET g1 == [g EXCEPT !.rows = [i \in 1..Len(g.rows) |->
                                    IF i > g.pos.row + 1 THEN Row_clear(g.rows[i]) ELSE g.rows[i]]]
    IN  OrAbort(g, erase_row_forward(g1))

erase_all_backward(g) ==
    LET g1 == [g EXCEPT !.rows = [i \in 1..Len(g.rows) |->
                                    IF i <= g.pos.row THEN Row_clear(g.rows[i]) ELSE g.rows[i]]]
    IN  OrAbort(g, erase_row_backward(g1))

\* insert_cells without the final truncate to the grid width.
insert_cells_no_truncate(g, count) ==
    IF ~HasRow(g, g.pos) THEN Abort(g)
    ELSE LET row == g.rows[g.pos.row + 1]
             c == g.pos.col
         IN  IF count > 0 /\ c > Len(row.cells) THEN Abort(g)
             ELSE LET ins == Take(row.cells, c) \o [i \in 1..count |-> Cell_default]
                                \o Drop(row.cells, c)
                  IN  current_row_mut(g, [row EXCEPT !.cells = ins])

insert_cells(g, count) ==
    IF ~HasRow(g, g.pos) THEN Abort(g)
    ELSE LET row == g.rows[g.pos.row + 1]
             c == g.pos.col
         IN  IF count > 0 /\ c > Len(row.cells) THEN Abort(g)
             ELSE LET ins == Take(row.cells, c) \o [i \in 1..count |-> Cell_default]
                                \o Drop(row.cells, c)
                  IN  current_row_mut(g, Row_truncate([row EXCEPT !.cells = ins], g.size.cols))

delete_cells(g, count, chk) ==
    IF ~HasRow(g, g.pos) THEN Abort(g)
    ELSE LET row == g.rows[g.pos.row + 1]
             c == g.pos.col
             d == sub_u16(g.size.cols, c, chk)
             k == Min(count, d)
         IN  IF d < 0 \/ (k > 0 /\ k > Len(row.cells) - c) THEN Abort(g)
             ELSE LET del == Take(row.cells, c) \o Drop(row.cells, c + k)
                  IN  current_row_mut(g, Row_resize([row EXCEPT !.cells = del], g.size.cols))

erase_cells(g, count) ==
    IF HasRow(g, g.pos)
    THEN LET row == g.rows[g.pos.row + 1]
         IN  current_row_mut(g, [row EXCEPT !.cells =
                                    ClearCells(row.cells, g.pos.col + 1, g.pos.col + count)])
    ELSE Abort(g)

\* One pass of the loop bodies: remove(at), insert(to, new_row), in either
\* order; each Vec call panics on an index out of range.
RemoveThenInsert(g, at, to) ==
    IF at >= Len(g.rows) THEN Abort(g)
    ELSE LET r1 == RemoveAt(g.rows, at)
         IN  IF to > Len(r1) THEN Abort(g)
             ELSE [g EXCEPT !.rows = InsertAt(r1, to, new_row(g))]

InsertThenRemove(g, to, at) ==
    IF to > Len(g.rows) THEN Abort(g)
    ELSE LET r1 == InsertAt(g.rows, to, new_row(g))
         IN  IF at >= Len(r1) THEN Abort(g)
             ELSE [g EXCEPT !.rows = RemoveAt(r1, at)]

RECURSIVE insert_lines_loop(_, _)
insert_lines_loop(g, k) ==
    IF k = 0 \/ g.aborted THEN g
    ELSE insert_lines_loop(RemoveThenInsert(g, g.scroll_bottom, g.pos.row), k - 1)

insert_lines(g, count) == OrAbort(g, insert_lines_loop(g, count))

RECURSIVE delete_lines_loop(_, _)
delete_lines_loop(g, k) ==
    IF k = 0 \/ g.aborted THEN g
    ELSE delete_lines_loop(InsertThenRemove(g, g.scroll_bottom + 1, g.pos.row), k - 1)

delete_lines(g, count, chk) ==
    LET d == sub_u16(g.size.rows, g.pos.row, chk)
    IN  IF d < 0 THEN Abort(g) ELSE OrAbort(g, delete_lines_loop(g, Min(count, d)))

RECURSIVE scroll_up_loop(_, _)
scroll_up_loop(g, k) ==
    IF k = 0 \/ g.aborted THEN g
    ELSE scroll_up_loop(InsertThenRemove(g, g.scroll_bottom + 1, g.scroll_top), k - 1)

\* scroll_up that appends the new row at the end of the grid instead of
\* just after scroll_bottom.
RECURSIVE scroll_up_at_end_loop(_, _)
scroll_up_at_end_loop(g, k) ==
    IF k = 0 \/ g.aborted THEN g
    ELSE scroll_up_at_end_loop(InsertThenRemove(g, Len(g.rows), g.scroll_top), k - 1)

scroll_up_at_end(g, count, chk) ==
    LET d == sub_u16(g.size.rows, g.scroll_top, chk)
    IN  IF d < 0 THEN Abort(g) ELSE OrAbort(g, scroll_up_at_end_loop(g, Min(count, d)))

scroll_up(g, count, chk) ==
    LET d == sub_u16(g.size.rows, g.scroll_top, chk)
    IN  IF d < 0 THEN Abort(g) ELSE OrAbort(g, scroll_up_loop(g, Min(count, d)))

RECURSIVE scroll_down_loop(_, _)
scroll_down_loop(g, k) ==
    IF k = 0 \/ g.aborted THEN g
    ELSE scroll_down_loop(RemoveThenInsert(g, g.scroll_bottom, g.scroll_top), k - 1)

scroll_down(g, count) == OrAbort(g, scroll_down_loop(g, count))

set_scroll_region(g, top, bottom0) ==
    LET bottom == Min(bottom0, g.size.rows - 1)
        g1 == IF top < bottom
              THEN [g EXCEPT !.scroll_top = top, !.scroll_bottom = bottom]
              ELSE [g EXCEPT !.scroll_top = 0, !.scroll_bottom = g.size.rows - 1]
    IN  [g1 EXCEPT !.pos = MkPos(g1.scroll_top, 0)]

set_origin_mode(g, mode) == set_pos([g EXCEPT !.origin_mode = mode], MkPos(0, 0))

row_inc_clamp(g, count) ==
    row_clamp_bottom([g EXCEPT !.pos.row = saturating_add(g.pos.row, count)], TRUE).g

\* row_inc_scroll that drops the overshoot instead of scrolling by it.
row_inc_scroll_no_scroll(g, count, chk) ==
    row_clamp_bottom([g EXCEPT !.pos.row = saturating_add(g.pos.row, count)], TRUE).g

row_inc_scroll(g, count, chk) ==
    LET r == row_clamp_bottom([g EXCEPT !.pos.row = saturating_add(g.pos.row, count)], TRUE)
    IN  OrAbort(g, scroll_up(r.g, r.rows, chk))

row_dec_clamp(g, count) ==
    row_clamp_top([g EXCEPT !.pos.row = saturating_sub(g.pos.row, count)], TRUE).g

\* row_dec_scroll that forgets what saturating_sub absorbed (no extra_lines).
row_dec_scroll_no_extra(g, count) ==
    LET r == row_clamp_top([g EXCEPT !.pos.row = saturating_sub(g.pos.row, count)], TRUE)
    IN  OrAbort(g, scroll_down(r.g, r.rows))

\* row_dec_scroll that forgets what row_clamp_top returned (extra_lines only).
row_dec_scroll_no_clamp_lines(g, count) ==
    LET extra_lines == IF count > g.pos.row THEN count - g.pos.row ELSE 0
        r == row_clamp_top([g EXCEPT !.pos.row = saturating_sub(g.pos.row, count)], TRUE)
    IN  OrAbort(g, scroll_down(r.g, extra_lines))

row_dec_scroll(g, count) ==
    LET extra_lines == IF count > g.pos.row THEN count - g.pos.row ELSE 0
        r == row_clamp_top([g EXCEPT !.pos.row = saturating_sub(g.pos.row, count)], TRUE)
    IN  OrAbort(g, scroll_down(r.g, r.rows + extra_lines))

row_set(g, i) ==
    row_clamp_bottom(row_clamp_top([g EXCEPT !.pos.row = i], TRUE).g, TRUE).g

col_inc(g, count) == [g EXCEPT !.pos.col = saturating_add(g.pos.col, count)]

col_inc_clamp(g, count) == col_clamp(col_inc(g, count))

col_dec(g, count) == [g EXCEPT !.pos.col = saturating_sub(g.pos.col, count)]

\* col_tab that adds 8 without first going back to the tab stop.
col_tab_plus_eight(g) == col_clamp([g EXCEPT !.pos.col = g.pos.col + 8])

\* pos.col += 8 cannot overflow here: the model keeps pos.col far below 2^16.
col_tab(g) == col_clamp([g EXCEPT !.pos.col = (g.pos.col - (g.pos.col % 8)) + 8])

col_set(g, i) == col_clamp([g EXCEPT !.pos.col = i])

col_wrap(g, width, chk) ==
    LET d == sub_u16(g.size.cols, width, chk)
    IN  IF d < 0 THEN Abort(g)
        ELSE IF g.pos.col > d
        THEN IF HasRow(g, g.pos)
             THEN LET g1 == current_row_mut(g, Row_wrap(g.rows[g.pos.row + 1], TRUE))
                  IN  OrAbort(g, row_inc_scroll([g1 EXCEPT !.pos.col = 0], 1, chk))
             ELSE Abort(g)
        ELSE g

\* ------------------------------------------------------------ serialization
\* The byte stream as a sequence of tokens, one per escape sequence, control
\* byte or character:
\*   <<"CUP", r, c>>  ESC [ r ; c H  (ESC [ H is CUP(1, 1))
\*   <<"ED">>         ESC [ J            <<"SGR0">>  ESC [ m
\*   <<"CR">> <<"LF">>  \r \n            <<"CH", c>>  the character c
\*   <<"CUF">>        ESC [ C            <<"CHA", c>>  ESC [ c G
\*   <<"ECH">>        ESC [ X
CUP(r, c) == <<"CUP", r, c>>
ED == <<"ED">>
SGR0 == <<"SGR0">>
CR == <<"CR">>
LF == <<"LF">>
CH(c) == <<"CH", c>>
CUF == <<"CUF">>
CHA(c) == <<"CHA", c>>
ECH == <<"ECH">>

\* Row::contents_formatted(start = 0, width): the text of the row up to its
\* last non-blank cell, a blank cell inside it as a cursor-forward; returns
\* the bytes and the column the text ends at.
LastContent(cells, width) ==
    LET S == {i \in 1..Min(width, Len(cells)) : cells[i] # Cell_default}
    IN  IF S = {} THEN 0 ELSE CHOOSE i \in S : \A j \in S : j <= i

Row_contents_formatted(row, width) ==
    LET last == LastContent(row.cells, width)
    IN  [contents |-> [i \in 1..last |->
                          IF row.cells[i] # Cell_default THEN CH(row.cells[i]) ELSE CUF],
         col |-> last]

\* Row::contents_diff(prev, start = 0, width): for every column whose cell
\* differs from prev's, a move to the column and the new cell (its character,
\* or an erase of one cell when it is blank); empty when no cell differs.
\* Returns the bytes and the column the cursor is left at.
RECURSIVE Row_diff_from(_, _, _, _, _)
Row_diff_from(row, prev_row, width, i, acc) ==
    IF i > Min(width, Min(Len(row.cells), Len(prev_row.cells))) THEN acc
    ELSE IF row.cells[i] = prev_row.cells[i]
    THEN Row_diff_from(row, prev_row, width, i + 1, acc)
    ELSE IF row.cells[i] # Cell_default
    THEN Row_diff_from(row, prev_row, width, i + 1,
                       [contents |-> acc.contents \o <<CHA(i), CH(row.cells[i])>>, col |-> i])
    ELSE Row_diff_from(row, prev_row, width, i + 1,
                       [contents |-> acc.contents \o <<CHA(i), ECH>>, col |-> i - 1])

Row_contents_diff(row, prev_row, width) ==
    Row_diff_from(row, prev_row, width, 1, [contents |-> <<>>, col |-> 0])

\* The for loop of contents_formatted over rows i..: acc is (contents,
\* final_col).
RECURSIVE formatted_rows(_, _, _)
formatted_rows(g, i, acc) ==
    IF i > Len(g.rows) THEN acc
    ELSE LET row == g.rows[i]
             r == Row_contents_formatted(row, g.size.cols)
             final_col == IF r.contents # <<>> THEN r.col ELSE acc.final_col
             c1 == acc.contents \o r.contents
             c2 == IF ~row.wrapped THEN c1 \o <<CR, LF>> ELSE c1
         IN  formatted_rows(g, i + 1, [contents |-> c2, final_col |-> final_col])

ends_with_crlf(contents) ==
    /\ Len(contents) >= 2
    /\ contents[Len(contents) - 1] = CR
    /\ contents[Len(contents)] = LF

\* The while loop stripping trailing "\r\n"; acc is (contents, final_row).
\* There are at most rows.len() of them.
RECURSIVE strip_crlf(_)
strip_crlf(acc) ==
    IF ends_with_crlf(acc.contents)
    THEN strip_crlf([contents |-> Take(acc.contents, Len(acc.contents) - 2),
                     final_row |-> acc.final_row - 1])
    ELSE acc

contents_formatted(g) ==
    LET body == formatted_rows(g, 1, [contents |-> <<CUP(1, 1), ED>>, final_col |-> 0])
        st == strip_crlf([contents |-> body.contents, final_row |-> g.size.rows])
    IN  IF st.final_row # g.pos.row \/ body.final_col # g.pos.col
        THEN st.contents \o <<CUP(g.pos.row + 1, g.pos.col + 1)>>
        ELSE st.contents

\* The for loop of contents_diff over the zipped rows; acc is (contents,
\* final_row, final_col).
RECURSIVE diff_rows(_, _, _, _)
diff_rows(g, p, i, acc) ==
    IF i > Min(Len(g.rows), Len(p.rows)) THEN acc
    ELSE LET r == Row_contents_diff(g.rows[i], p.rows[i], g.size.cols)
         IN  IF r.contents # <<>>
             THEN diff_rows(g, p, i + 1,
                            [contents |-> acc.contents \o <<CUP(i, 1)>> \o r.contents,
                             final_row |-> i - 1, final_col |-> r.col])
             ELSE diff_rows(g, p, i + 1, acc)

\* contents_diff with the row-positioning escape emitted for every row, not
\* only for the rows whose diff is not empty.
RECURSIVE diff_rows_unguarded(_, _, _, _)
diff_rows_unguarded(g, p, i, acc) ==
    IF i > Min(Len(g.rows), Len(p.rows)) THEN acc
    ELSE LET r == Row_contents_diff(g.rows[i], p.rows[i], g.size.cols)
         IN  diff_rows_unguarded(g, p, i + 1,
                                 [contents |-> acc.contents \o <<CUP(i, 1)>> \o r.contents,
                                  final_row |-> i - 1, final_col |-> r.col])

contents_diff_unguarded(g, p) ==
    LET d == diff_rows_unguarded(g, p, 1, [contents |-> <<SGR0>>,
                                           final_row |-> p.pos.row, final_col |-> p.pos.col])
    IN  IF g.pos.row # d.final_row \/ g.pos.col # d.final_col
        THEN d.contents \o <<CUP(g.pos.row + 1, g.pos.col + 1)>>
        ELSE d.contents

contents_diff(g, p) ==
    LET d == diff_rows(g, p, 1, [contents |-> <<SGR0>>,
                                 final_row |-> p.pos.row, final_col |-> p.pos.col])
    IN  IF g.pos.row # d.final_row \/ g.pos.col # d.final_col
        THEN d.contents \o <<CUP(g.pos.row + 1, g.pos.col + 1)>>
        ELSE d.contents

\* The interpreter the stream is replayed into: one Grid call per token
\* (CUP -> set_pos, ED -> erase_all_forward, CR -> col_set(0),
\* LF -> row_inc_scroll(1), a character -> col_wrap(1), the cell written,
\* col_inc(1), CUF -> col_inc_clamp(1), CHA -> col_set, ECH -> erase_cells(1)).
text(g, c) ==
    LET g1 == col_wrap(g, 1, TRUE)
        g2 == IF g1.aborted THEN g1 ELSE current_cell_mut(g1, c)
    IN  IF g2.aborted THEN Abort(g) ELSE col_inc(g2, 1)

process(g, tok) ==
    CASE tok[1] = "CUP" -> set_pos(g, MkPos(tok[2] - 1, tok[3] - 1))
      [] tok[1] = "ED" -> erase_all_forward(g)
      [] tok[1] = "SGR0" -> g
      [] tok[1] = "CR" -> col_set(g, 0)
      [] tok[1] = "LF" -> row_inc_scroll(g, 1, TRUE)
      [] tok[1] = "CH" -> text(g, tok[2])
      [] tok[1] = "CUF" -> col_inc_clamp(g, 1)
      [] tok[1] = "CHA" -> col_set(g, tok[2] - 1)
      [] tok[1] = "ECH" -> erase_cells(g, 1)

RECURSIVE replay(_, _, _)
replay(g, stream, i) ==
    IF i > Len(stream) \/ g.aborted THEN g
    ELSE replay(process(g, stream[i]), stream, i + 1)

\* compare_screens: the same cells and the same cursor position.
CellsOf(g) == [i \in 1..Len(g.rows) |-> g.rows[i].cells]
compare_screens(a, b) ==
    /\ ~a.aborted /\ ~b.aborted
    /\ CellsOf(a) = CellsOf(b)
    /\ a.pos = b.pos

\* ------------------------------------------------------------ state machine
\* grid: the Grid the interpreter owns.  prev: the clone kept for diffing
\* (fuzz: prev_screen).  op: history of the last call (its name, its count
\* argument and the grid it was made on) and the number of calls still to be
\* made (fuel, -1 when unbounded); the specifications whose claims are
\* invariants of the grid alone start it at "off" and keep it there.
InitSize == MkSize(InitRows, InitCols)
Sizes == {MkSize(r, c) : r \in 1..MaxRows, c \in 1..MaxCols}
Positions == {MkPos(r, c) : r \in 0..MaxRows, c \in 0..MaxCols}
Counts == 0..MaxCount
Chars == 1..MaxChar
\* The builds an a - b in u16 distinguishes: with and without overflow checks
\* when it underflows, one otherwise.
Builds(a, b) == IF a < b THEN BOOLEAN ELSE {TRUE}

OpOff == [name |-> "off", n |-> 0, pre |-> new(InitSize), fuel |-> -1]
OpNew(g, fuel) == [name |-> "new", n |-> 0, pre |-> g, fuel |-> fuel]

Step(name, n, g) ==
    /\ ~grid.aborted
    /\ op.fuel # 0
    /\ grid' = g
    /\ op' = IF op.name = "off" THEN op
             ELSE [name |-> name, n |-> n, pre |-> grid,
                   fuel |-> IF op.fuel > 0 THEN op.fuel - 1 ELSE op.fuel]
    /\ UNCHANGED prev

Clear == Step("clear", 0, clear(grid))
SetSize == \E sz \in Sizes : Step("set_size", 0, set_size(grid, sz))
SetPos(P) == \E p \in P : Step("set_pos", 0, set_pos(grid, p))
SaveCursor == Step("save_cursor", 0, save_cursor(grid))
RestoreCursor == Step("restore_cursor", 0, restore_cursor(grid))
WriteCell(C) == \E c \in C : Step("current_cell_mut", c, current_cell_mut(grid, c))
EraseAll == Step("erase_all", 0, erase_all(grid))
EraseAllForward == Step("erase_all_forward", 0, erase_all_forward(grid))
EraseAllBackward == Step("erase_all_backward", 0, erase_all_backward(grid))
EraseRow == Step("erase_row", 0, erase_row(grid))
EraseRowForward == Step("erase_row_forward", 0, erase_row_forward(grid))
EraseRowBackward == Step("erase_row_backward", 0, erase_row_backward(grid))
InsertCells == \E n \in Counts : Step("insert_cells", n, insert_cells(grid, n))
DeleteCells ==
    \E n \in Counts, chk \in Builds(grid.size.cols, grid.pos.col) :
        Step("delete_cells", n, delete_cells(grid, n, chk))
EraseCells == \E n \in Counts : Step("erase_cells", n, erase_cells(grid, n))
InsertLines == \E n \in Counts : Step("insert_lines", n, insert_lines(grid, n))
DeleteLines ==
    \E n \in Counts, chk \in Builds(grid.size.rows, grid.pos.row) :
        Step("delete_lines", n, delete_lines(grid, n, chk))
ScrollUp ==
    \E n \in Counts, chk \in Builds(grid.size.rows, grid.scroll_top) :
        Step("scroll_up", n, scroll_up(grid, n, chk))
ScrollDown == \E n \in Counts : Step("scroll_down", n, scroll_down(grid, n))
SetScrollRegion(T, B) ==
    \E top \in T, bottom \in B :
        Step("set_scroll_region", 0, set_scroll_region(grid, top, bottom))
SetOriginMode == \E m \in BOOLEAN : Step("set_origin_mode", 0, set_origin_mode(grid, m))
RowIncClamp == \E n \in Counts : Step("row_inc_clamp", n, row_inc_clamp(grid, n))
RowIncScroll(N) ==
    \E n \in N, chk \in Builds(grid.size.rows, grid.scroll_top) :
        Step("row_inc_scroll", n, row_inc_scroll(grid, n, chk))
RowDecClamp == \E n \in Counts : Step("row_dec_clamp", n, row_dec_clamp(grid, n))
RowDecScroll(N) == \E n \in N : Step("row_dec_scroll", n, row_dec_scroll(grid, n))
RowSet == \E i \in 0..MaxRows : Step("row_set", i, row_set(grid, i))
\* col_inc saturates at 2^16 - 1 only; the model stops it at MaxCols, one
\* past the last column of the widest grid.
ColInc ==
    \E n \in Counts :
        /\ grid.pos.col + n <= MaxCols
        /\ Step("col_inc", n, col_inc(grid, n))
\* col_inc stopped at column `limit` instead of MaxCols.
ColIncTo(limit) ==
    \E n \in Counts :
        /\ grid.pos.col + n <= limit
        /\ Step("col_inc", n, col_inc(grid, n))
ColIncClamp == \E n \in Counts : Step("col_inc_clamp", n, col_inc_clamp(grid, n))
ColDec == \E n \in Counts : Step("col_dec", n, col_dec(grid, n))
ColTab == Step("col_tab", 0, col_tab(grid))
ColSet == \E i \in 0..MaxCols : Step("col_set", i, col_set(grid, i))
ColWrap ==
    \E w \in 1..2 : \E chk \in Builds(grid.size.cols, w) :
        Step("col_wrap", w, col_wrap(grid, w, chk))

\* Spec: every public mutator, on a grid whose cells stay blank (the cell
\* under the cursor is reached through current_cell_mut and cleared).
Init ==
    /\ grid = new(InitSize)
    /\ prev = new(InitSize)
    /\ op = OpOff

Next ==
    \/ Clear \/ SetSize \/ SetPos(Positions) \/ SaveCursor \/ RestoreCursor
    \/ WriteCell({Cell_default})
    \/ EraseAll \/ EraseAllForward \/ EraseAllBackward
    \/ EraseRow \/ EraseRowForward \/ EraseRowBackward
    \/ InsertCells \/ DeleteCells \/ EraseCells
    \/ InsertLines \/ DeleteLines \/ ScrollUp \/ ScrollDown
    \/ SetScrollRegion(0..MaxRows, 0..MaxRows) \/ SetOriginMode
    \/ RowIncClamp \/ RowIncScroll(Counts) \/ RowDecClamp \/ RowDecScroll(Counts) \/ RowSet
    \/ ColInc \/ ColIncClamp \/ ColDec \/ ColTab \/ ColSet \/ ColWrap

Spec == Init /\ [][Next]_vars

\* SpecSerial: the calls an interpreter makes while it draws (no resize, no
\* change of scroll region or origin mode), cells written with characters,
\* and the clone of the grid taken for the next diff.
Snapshot ==
    /\ ~grid.aborted
    /\ prev' = grid
    /\ UNCHANGED <<grid, op>>

NextSerial ==
    \/ SetPos(Positions) \/ WriteCell(Chars)
    \/ EraseAll \/ EraseAllForward \/ EraseAllBackward
    \/ EraseRow \/ EraseRowForward \/ EraseRowBackward
    \/ InsertCells \/ DeleteCells \/ EraseCells
    \/ InsertLines \/ DeleteLines \/ ScrollUp \/ ScrollDown
    \/ RowIncScroll(Counts) \/ RowDecScroll(Counts)
    \/ ColInc \/ ColIncClamp \/ ColDec \/ ColSet \/ ColWrap
    \/ Snapshot

SpecSerial == Init /\ [][NextSerial]_vars

\* SpecScroll: a grid of ExRows rows and one column in which the interpreter
\* has written a different character on every row (row r holds r + 1), then
\* cursor positioning, scroll regions and the scrolling row movements.
ExSize == MkSize(ExRows, 1)

RECURSIVE Labelled(_, _)
Labelled(g, r) ==
    IF r >= g.size.rows THEN set_pos(g, Pos_default)
    ELSE Labelled(current_cell_mut(set_pos(g, MkPos(r, 0)), r + 1), r + 1)

InitScroll ==
    /\ grid = Labelled(new(ExSize), 0)
    /\ prev = new(InitSize)
    /\ op = OpNew(grid, MaxSteps)

NextScroll ==
    \/ SetPos({MkPos(r, 0) : r \in {0, 6, ExRows - 1}})
    \/ SetScrollRegion({0, 5}, {ExRows - 4, ExRows - 1})
    \/ RowIncScroll({1, ExRows + 6})
    \/ RowDecScroll({1, 10})

SpecScroll == InitScroll /\ [][NextScroll]_vars

\* SpecResize: resizing a grid whose rows carry wrap flags (set by col_wrap
\* at the right edge, cleared by erase_row_forward).
InitResize ==
    /\ grid = new(InitSize)
    /\ prev = new(InitSize)
    /\ op = OpNew(grid, -1)

NextResize ==
    \/ SetSize \/ SetPos(Positions) \/ ColInc \/ ColWrap \/ EraseRowForward

SpecResize == InitResize /\ [][NextResize]_vars

\* SpecCells: one row of CellCols cells in which the interpreter has written
\* a different character in every cell (column j holds j + 1), then cursor
\* movement along the row (col_inc up to one column past the pending-wrap
\* column) and the insertion and deletion of cells.
CellSize == MkSize(1, CellCols)

RECURSIVE LabelledCells(_, _)
LabelledCells(g, j) ==
    IF j >= g.size.cols THEN set_pos(g, Pos_default)
    ELSE LabelledCells(current_cell_mut(set_pos(g, MkPos(0, j)), j + 1), j + 1)

InitCells ==
    /\ grid = LabelledCells(new(CellSize), 0)
    /\ prev = new(InitSize)
    /\ op = OpNew(grid, CellSteps)

NextCells ==
    \/ SetPos({MkPos(0, j) : j \in 0..CellCols})
    \/ ColIncTo(CellCols + 1)
    \/ InsertCells
    \/ DeleteCells

SpecCells == InitCells /\ [][NextCells]_vars

\* SpecCursor: cursor addressing on a blank grid of MaxRows rows and TabCols
\* columns: absolute positioning with and without origin mode, scroll
\* regions, col_inc up to the pending-wrap column, and tabs.
CursorSize == MkSize(MaxRows, TabCols)
CursorPositions == {MkPos(r, c) : r \in 0..MaxRows, c \in 0..TabCols}

InitCursor ==
    /\ grid = new(CursorSize)
    /\ prev = new(InitSize)
    /\ op = OpNew(grid, -1)

NextCursor ==
    \/ SetPos(CursorPositions)
    \/ SetScrollRegion(0..MaxRows, 0..MaxRows)
    \/ SetOriginMode
    \/ ColIncTo(TabCols)
    \/ ColTab

SpecCursor == InitCursor /\ [][NextCursor]_vars

\* SpecLines: a grid of LineRows rows and two columns in which the
\* interpreter has written a different character at the start of every row,
\* then cursor positioning (origin mode off, so also outside the scroll
\* region), scroll regions, the line operations, the row movements, and
\* wrapping at the right edge.
LineSize == MkSize(LineRows, 2)

InitLines ==
    /\ grid = Labelled(new(LineSize), 0)
    /\ prev = new(InitSize)
    /\ op = OpNew(grid, LineSteps)

NextLines ==
    \/ SetPos({MkPos(r, 0) : r \in 0..(LineRows - 1)})
    \/ SetScrollRegion(0..(LineRows - 1), 0..(LineRows - 1))
    \/ InsertLines \/ DeleteLines \/ ScrollUp \/ ScrollDown
    \/ RowIncClamp \/ RowIncScroll(Counts) \/ RowDecClamp \/ RowDecScroll(Counts)
    \/ ColIncTo(2) \/ ColWrap

SpecLines == InitLines /\ [][NextLines]_vars

\* ------------------------------------------------------------------ claims

\* C1: after every public operation the number of stored rows equals
\* size.rows and every stored row has exactly size.cols cells.
C1_RowsMatchSize ==
    /\ Len(grid.rows) = grid.size.rows
    /\ \A i \in 1..Len(grid.rows) : Len(grid.rows[i].cells) = grid.size.cols

\* C2: after every public mutation pos.row < size.rows and
\* pos.col < size.cols.
C2_CursorInsideSize ==
    /\ grid.pos.row < grid.size.rows
    /\ grid.pos.col < grid.size.cols

\* C3: in every reachable state scroll_top <= scroll_bottom < size.rows.
C3_ScrollRegionOrdered ==
    /\ grid.scroll_top <= grid.scroll_bottom
    /\ grid.scroll_bottom < grid.size.rows

\* A one-row region below row 0: set_scroll_region never makes one (it wants
\* top < bottom), so set_size has shrunk the grid under a region [1, 2].
C3_Witness ==
    /\ grid.scroll_top = 1
    /\ grid.scroll_bottom = 1
    /\ grid.size.rows = 2

\* C4: the cursor always addresses an existing cell of the stored rows, and
\* no operation aborts.
C4_CursorAddressesCell ==
    /\ ~grid.aborted
    /\ HasCell(grid, grid.pos)

\* C5: replaying contents_formatted() into a fresh interpreter of the same
\* size reproduces the grid: the same cells and the same cursor position.
C5_FullReplayEquivalent ==
    ~grid.aborted =>
        compare_screens(replay(new(grid.size), contents_formatted(grid), 1), grid)

\* C6: applying contents_diff(prev) to a terminal in state prev (a grid of
\* equal size) yields the grid: the same cells and the same cursor position.
C6_DiffReplayEquivalent ==
    (~grid.aborted /\ prev.size = grid.size) =>
        compare_screens(replay(prev, contents_diff(grid, prev), 1), grid)

\* C7: the diff of a grid against itself holds no positioning escape and no
\* row content.
C7_SelfDiffEmitsNothing ==
    LET d == contents_diff(grid, grid)
    IN  \A i \in 1..Len(d) : d[i][1] \notin {"CUP", "CHA", "CH", "ECH", "CUF"}

\* A grid with text, a wrapped row and the cursor away from the origin, the
\* diff of which against itself is the style reset alone.
C7_Witness ==
    /\ \E i \in 1..Len(grid.rows) : grid.rows[i].wrapped
    /\ \E i \in 1..Len(grid.rows) : \E j \in 1..Len(grid.rows[i].cells) :
           grid.rows[i].cells[j] # Cell_default
    /\ grid.pos # Pos_default
    /\ prev # grid
    /\ contents_diff(grid, grid) = <<SGR0>>

\* k one-line scrolls of the scroll region, upward and downward.
RECURSIVE ScrollUpTimes(_, _)
ScrollUpTimes(g, k) ==
    IF k = 0 \/ g.aborted THEN g ELSE ScrollUpTimes(scroll_up(g, 1, TRUE), k - 1)

RECURSIVE ScrollDownTimes(_, _)
ScrollDownTimes(g, k) ==
    IF k = 0 \/ g.aborted THEN g ELSE ScrollDownTimes(scroll_down(g, 1), k - 1)

\* C8: with the cursor at row r <= scroll_bottom, row_inc_scroll(n) leaves
\* the cursor at row min(r + n, scroll_bottom) and changes the rows as
\* max(0, r + n - scroll_bottom) one-line upward scrolls of the region do;
\* nothing else changes.
C8_RowIncScroll ==
    (op.name = "row_inc_scroll" /\ op.pre.pos.row <= op.pre.scroll_bottom) =>
        LET r == op.pre.pos.row
            sb == op.pre.scroll_bottom
            k == Max(0, r + op.n - sb)
        IN  grid = [ScrollUpTimes(op.pre, k) EXCEPT !.pos.row = Min(r + op.n, sb)]

\* The example: ExRows rows, full-height region, cursor at row 0, every row
\* still holding its own character; row_inc_scroll(ExRows + 6) leaves the
\* cursor on the last row and the region scrolled up by 7 lines.
C8_Witness ==
    /\ op.name = "row_inc_scroll"
    /\ op.n = ExRows + 6
    /\ op.pre = Labelled(new(ExSize), 0)
    /\ grid.pos.row = ExRows - 1
    /\ grid.rows[1].cells = <<8>>
    /\ grid.rows[ExRows - 7].cells = <<ExRows>>
    /\ \A i \in (ExRows - 6)..ExRows : grid.rows[i].cells = <<Cell_default>>

\* C9 as stated: with scroll_top = 5 and the cursor at row 6,
\* row_dec_scroll(10) scrolls the region down by 5 lines and leaves the
\* cursor at row 5.
C9_ScrollsDownByFive ==
    (/\ op.name = "row_dec_scroll"
     /\ op.n = 10
     /\ op.pre.scroll_top = 5
     /\ op.pre.pos.row = 6) =>
        grid = [ScrollDownTimes(op.pre, 5) EXCEPT !.pos.row = 5]

\* C9 amended: with scroll_top = 5 and the cursor at row 6,
\* row_dec_scroll(10) scrolls the region down by (10 - 6) + (5 - 0) = 9
\* lines and leaves the cursor at row 5.
C9_ScrollsDownByNine ==
    (/\ op.name = "row_dec_scroll"
     /\ op.n = 10
     /\ op.pre.scroll_top = 5
     /\ op.pre.pos.row = 6) =>
        grid = [ScrollDownTimes(op.pre, (10 - 6) + (5 - 0)) EXCEPT !.pos.row = 5]

\* The call made on the grid in which every row still holds its own
\* character: the row that was at index 5 is at index 14 afterwards.
C9_Witness ==
    /\ op.name = "row_dec_scroll"
    /\ op.n = 10
    /\ op.pre.scroll_top = 5
    /\ op.pre.pos.row = 6
    /\ CellsOf(op.pre) = CellsOf(Labelled(new(ExSize), 0))
    /\ grid.pos.row = 5
    /\ grid.rows[15].cells = <<6>>
    /\ \A i \in 6..14 : grid.rows[i].cells = <<Cell_default>>

\* C10: set_size with a different column count leaves every wrap flag
\* false; with the same column count it leaves every wrap flag as it was.
WrapFlags(g) == [i \in 1..Len(g.rows) |-> g.rows[i].wrapped]

C10_ResizeWrapFlags ==
    op.name = "set_size" =>
        IF grid.size.cols # op.pre.size.cols
        THEN \A i \in 1..Len(grid.rows) : ~grid.rows[i].wrapped
        ELSE WrapFlags(grid) = WrapFlags(op.pre)

\* A resize to another column count of a grid that had a wrapped row.
C10_Witness ==
    /\ op.name = "set_size"
    /\ grid.size.cols # op.pre.size.cols
    /\ \E i \in 1..Len(op.pre.rows) : op.pre.rows[i].wrapped
    /\ \A i \in 1..Len(grid.rows) : ~grid.rows[i].wrapped

\* C11: with the cursor at column c of a row of width W (c <= W, W the grid
\* width), insert_cells(n) leaves cells 0..c-1 as they were, makes cells
\* c..min(c+n, W)-1 blank, moves the old cell at column j >= c to column
\* j + n when j + n < W and discards it otherwise; delete_cells(n) removes
\* min(n, W - c) cells at column c, shifts the cells to their right left by
\* that amount and fills the vacated rightmost columns with blank cells; both
\* leave the row W cells wide.
C11_InsertDeleteCells ==
    LET pre == op.pre
        c == pre.pos.col
        old == pre.rows[pre.pos.row + 1].cells
        W == Len(old)
        now == grid.rows[pre.pos.row + 1].cells
        k == Min(op.n, W - c)
    IN  /\ (op.name = "insert_cells" /\ W = pre.size.cols /\ c <= W) =>
              /\ ~grid.aborted
              /\ Len(now) = W
              /\ \A j \in 0..(W - 1) :
                     now[j + 1] = IF j < c THEN old[j + 1]
                                  ELSE IF j < c + op.n THEN Cell_default
                                  ELSE old[j - op.n + 1]
        /\ (op.name = "delete_cells" /\ W = pre.size.cols /\ c <= W) =>
              /\ ~grid.aborted
              /\ Len(now) = W
              /\ \A j \in 0..(W - 1) :
                     now[j + 1] = IF j < c THEN old[j + 1]
                                  ELSE IF j + k < W THEN old[j + k + 1]
                                  ELSE Cell_default

\* insert_cells(2) at column 1 of the freshly written row 1 2 3 .. : the
\* cell of column 1 is at column 3 and the last two cells are gone.
C11_InsertWitness ==
    /\ op.name = "insert_cells"
    /\ op.n = 2
    /\ op.pre.pos.col = 1
    /\ op.pre.rows = LabelledCells(new(CellSize), 0).rows
    /\ grid.rows[1].cells[1] = 1
    /\ grid.rows[1].cells[2] = Cell_default
    /\ grid.rows[1].cells[3] = Cell_default
    /\ grid.rows[1].cells[4] = 2
    /\ Len(grid.rows[1].cells) = CellCols

\* C12: in every state and for every p, set_pos(p) leaves the cursor column
\* at min(p.col, cols - 1) and the cursor row at min(p.row, rows - 1) when
\* origin mode is off and at min(p.row + scroll_top, scroll_bottom), never
\* above scroll_top, when it is on, and changes nothing else;
\* set_origin_mode(m) stores m and leaves the cursor at (scroll_top, 0) if m
\* is on and at (0, 0) if it is off.
C12_SetPosOriginMode ==
    /\ \A p \in CursorPositions :
           LET row == IF grid.origin_mode
                      THEN Min(p.row + grid.scroll_top, grid.scroll_bottom)
                      ELSE Min(p.row, grid.size.rows - 1)
           IN  /\ set_pos(grid, p) =
                      [grid EXCEPT !.pos = MkPos(row, Min(p.col, grid.size.cols - 1))]
               /\ grid.origin_mode => row >= grid.scroll_top
    /\ \A m \in BOOLEAN :
           set_origin_mode(grid, m) =
               [grid EXCEPT !.origin_mode = m,
                            !.pos = MkPos(IF m THEN grid.scroll_top ELSE 0, 0)]

\* set_pos in origin mode with a region that starts below row 0 and ends
\* above the last row, asked for a row past the region and a column past the
\* grid: the cursor is on the region's last row, in the last column.
C12_Witness ==
    /\ op.name = "set_pos"
    /\ op.pre.origin_mode
    /\ op.pre.scroll_top > 0
    /\ op.pre.pos = MkPos(op.pre.scroll_top, 0)
    /\ grid.pos = MkPos(grid.scroll_bottom, grid.size.cols - 1)
    /\ \E p \in CursorPositions :
           /\ p.row + op.pre.scroll_top > op.pre.scroll_bottom
           /\ p.col > grid.size.cols - 1
           /\ grid = set_pos(op.pre, p)

\* C13: with the cursor at column c < cols, col_tab() moves it to column
\* min(8 * (c div 8) + 8, cols - 1), the next multiple of 8 above c clamped
\* to the last column; the cursor row and all rows are unchanged.
C13_ColTab ==
    (op.name = "col_tab" /\ op.pre.pos.col < op.pre.size.cols) =>
        LET c == op.pre.pos.col
        IN  grid = [op.pre EXCEPT
                       !.pos.col = Min(8 * (c \div 8) + 8, op.pre.size.cols - 1)]

\* The three examples: from column 5 to 8, from 8 to 16, and from the last
\* column to the last column.
C13_Witness ==
    /\ op.name = "col_tab"
    /\ \/ op.pre.pos.col = 5 /\ grid.pos.col = 8
       \/ op.pre.pos.col = 8 /\ grid.pos.col = 16
    /\ col_tab(col_tab(grid)).pos.col = grid.size.cols - 1

\* C14: with the cursor at row r inside the scroll region, row_dec_scroll(n)
\* leaves the cursor at row max(r - n, scroll_top) and changes the rows as
\* max(0, n - (r - scroll_top)) one-line downward scrolls of the region do;
\* the rows the cursor moved and the lines scrolled sum to n.
C14_RowDecScroll ==
    (/\ op.name = "row_dec_scroll"
     /\ op.pre.scroll_top <= op.pre.pos.row
     /\ op.pre.pos.row <= op.pre.scroll_bottom) =>
        LET r == op.pre.pos.row
            st == op.pre.scroll_top
            lines == Max(0, op.n - (r - st))
        IN  /\ grid = [ScrollDownTimes(op.pre, lines) EXCEPT !.pos.row = Max(r - op.n, st)]
            /\ (r - grid.pos.row) + lines = op.n

\* Both contributions at once: the cursor on scroll_top = 5 and n = 10, so
\* saturating_sub absorbs 5 and the clamp to scroll_top another 5; the row
\* that was at index 5 is at index 15 and the ten rows above it are blank.
C14_Witness ==
    /\ op.name = "row_dec_scroll"
    /\ op.n = 10
    /\ op.pre.scroll_top = 5
    /\ op.pre.pos.row = 5
    /\ CellsOf(op.pre) = CellsOf(Labelled(new(ExSize), 0))
    /\ grid.pos.row = 5
    /\ grid.rows[16].cells = <<6>>
    /\ \A i \in 6..15 : grid.rows[i].cells = <<Cell_default>>

\* C15: in every reachable state and for every count, insert_lines and
\* delete_lines leave every row above the cursor row and every row below
\* scroll_bottom as it was and where it was, and the number of rows
\* unchanged, wherever the cursor is.
C15_LinesFrame ==
    (op.name \in {"insert_lines", "delete_lines"}) =>
        /\ ~grid.aborted
        /\ Len(grid.rows) = Len(op.pre.rows)
        /\ \A i \in 1..Len(op.pre.rows) :
               (i - 1 < op.pre.pos.row \/ i - 1 > op.pre.scroll_bottom) =>
                   grid.rows[i] = op.pre.rows[i]

\* C16: scroll_up(n) and scroll_down(n) leave the rows outside
\* [scroll_top, scroll_bottom], the cursor, the scroll region and the row
\* count unchanged; inside the region, with k = min(n, region height),
\* scroll_up moves every row k positions up, dropping the top k rows and
\* leaving the bottom k rows blank, and scroll_down does the mirror image.
C16_ScrollFrame ==
    LET pre == op.pre
        st == pre.scroll_top
        sb == pre.scroll_bottom
        k == Min(op.n, sb - st + 1)
    IN  /\ op.name = "scroll_up" =>
              grid = [pre EXCEPT !.rows = [i \in 1..Len(pre.rows) |->
                          IF i - 1 < st \/ i - 1 > sb THEN pre.rows[i]
                          ELSE IF i - 1 + k <= sb THEN pre.rows[i + k]
                          ELSE new_row(pre)]]
        /\ op.name = "scroll_down" =>
              grid = [pre EXCEPT !.rows = [i \in 1..Len(pre.rows) |->
                          IF i - 1 < st \/ i - 1 > sb THEN pre.rows[i]
                          ELSE IF i - 1 - k >= st THEN pre.rows[i - k]
                          ELSE new_row(pre)]]

\* scroll_up(1) of a region that is neither at the top nor at the bottom of
\* the grid, every row still holding its own character: the first and the
\* last row stay, the region's second row is on its first, its last is blank.
C16_Witness ==
    /\ op.name = "scroll_up"
    /\ op.n = 1
    /\ op.pre.scroll_top = 1
    /\ op.pre.scroll_bottom = LineRows - 2
    /\ CellsOf(op.pre) = CellsOf(Labelled(new(LineSize), 0))
    /\ grid.rows[1] = op.pre.rows[1]
    /\ grid.rows[LineRows] = op.pre.rows[LineRows]
    /\ grid.rows[2] = op.pre.rows[3]
    /\ grid.rows[LineRows - 1] = new_row(grid)

\* C17: col_wrap(width) with 1 <= width <= cols.  If the cursor column is
\* greater than cols - width, the row under the cursor gets its wrap flag,
\* the cursor column becomes 0 and the cursor advances by one row, the
\* region scrolling up one line instead when the cursor was at
\* scroll_bottom, so that the flagged row is directly above the cursor;
\* otherwise nothing changes.  In both cases the cursor column is < cols
\* afterwards.
C17_ColWrap ==
    (op.name = "col_wrap" /\ 1 <= op.n /\ op.n <= op.pre.size.cols) =>
        LET pre == op.pre
            flagged == [pre EXCEPT !.rows[pre.pos.row + 1].wrapped = TRUE, !.pos.col = 0]
        IN  /\ ~grid.aborted
            /\ grid.pos.col < grid.size.cols
            /\ IF pre.pos.col > pre.size.cols - op.n
               THEN /\ grid = IF pre.pos.row = pre.scroll_bottom
                              THEN scroll_up(flagged, 1, TRUE)
                              ELSE [flagged EXCEPT !.pos.row = pre.pos.row + 1]
                    /\ grid.pos.row >= 1
                    /\ grid.rows[grid.pos.row] = flagged.rows[pre.pos.row + 1]
               ELSE grid = pre

\* C18: in every reachable state row_inc_clamp(n) and row_inc_scroll(n)
\* never move the cursor to a smaller row index, row_dec_clamp(n) and
\* row_dec_scroll(n) never move it to a larger one, and row_inc_clamp and
\* row_dec_clamp change no row.
C18_RowMovesMonotone ==
    /\ op.name \in {"row_inc_clamp", "row_inc_scroll"} => grid.pos.row >= op.pre.pos.row
    /\ op.name \in {"row_dec_clamp", "row_dec_scroll"} => grid.pos.row <= op.pre.pos.row
    /\ op.name \in {"row_inc_clamp", "row_dec_clamp"} => grid.rows = op.pre.rows

\* C19: if the scroll region spans the whole grid before set_size, it spans
\* the whole new grid afterwards, whether the row count shrinks or grows.
C19_FullRegionStaysFull ==
    (/\ op.name = "set_size"
     /\ op.pre.scroll_top = 0
     /\ op.pre.scroll_bottom = op.pre.size.rows - 1) =>
        /\ grid.scroll_top = 0
        /\ grid.scroll_bottom = grid.size.rows - 1

\* C20: in every state reachable from new(size) by public operations,
\* whenever origin mode is on the cursor row lies inside the scroll region.
C20_OriginModeCursorInRegion ==
    grid.origin_mode =>
        /\ grid.scroll_top <= grid.pos.row
        /\ grid.pos.row <= grid.scroll_bottom

====
